---- MODULE Spec2Model ----
(***************************************************************************)
(* A model of trolly: the submission endpoint (app.py save_results), the   *)
(* results directory it writes, and the analysis pipeline (analytics.py:   *)
(* load_results_from_csv, load_all_results, the aggregation stages,        *)
(* generate_report, run_analysis) and the label of view_results.py         *)
(* view_participant_summary.                                               *)
(*                                                                         *)
(* Numbers the code holds as floats (percentages, means, the squared       *)
(* standard deviation) are exact rationals [nan, num, den] here, compared  *)
(* by cross-multiplication; a float NaN is the value with nan = TRUE.      *)
(***************************************************************************)
EXTENDS Integers, Sequences, FiniteSets, TLC

VARIABLES
    dir,     \* RESULTS_DIR: file name -> file content, for the files that exist
    pc,      \* run_analysis: "idle" before the run, then how it ended
    df,      \* the combined table load_all_results returned to run_analysis
    locals,  \* the statistics generate_report computed (its local variables)
    report,  \* what run_analysis returns
    exc,     \* the exception that ended run_analysis ("" when none did)
    out      \* the artefacts this run wrote to the output directory

vars == <<dir, pc, df, locals, report, exc, out>>

(***************************************************************************)
(* Bounds of the model.                                                    *)
(***************************************************************************)
MaxResults == 2    \* answer records in one submission
MaxRows == 2       \* rows of a source that did not come from save_results
MaxTable == 3      \* rows of a combined table drawn by InitAgg
MaxAnswers == 5    \* rows of a one-participant table drawn by InitChoices
MaxPermTable == 3  \* rows of a table drawn by InitPerm

Participants == {"p1", "p2"}
DilemmaIds == {1, 2}
ReactionTimes == {1, 2}
Frameworks == {"utilitarian", "deontological"}
Dates == {"2024-01-01"}

\* dilemmas.py: the title a dilemma id is served with
DilemmaTitle(id) == IF id = 1 THEN "Autonomous Vehicle Decision"
                    ELSE "AI Healthcare Resource Allocation"

(***************************************************************************)
(* Cells of a DataFrame: a number, a string or NaN.                        *)
(***************************************************************************)
NaN == [t |-> "nan", n |-> 0, s |-> ""]
Num(n) == [t |-> "num", n |-> n, s |-> ""]
Str(s) == [t |-> "str", n |-> 0, s |-> s]
isna(c) == c.t = "nan"

\* the columns save_results writes (app.py fieldnames), in order
fieldnames == <<"Participant ID", "Dilemma ID", "Dilemma Title", "Choice",
                "Ethical Framework", "Reaction Time (s)", "Timestamp">>
Columns == {fieldnames[i] : i \in 1..Len(fieldnames)}

\* csv.DictWriter.writerow: a key the dict lacks is written as the empty field
writerow(d) == [c \in Columns |-> IF c \in DOMAIN d THEN d[c] ELSE ""]

(***************************************************************************)
(* Text of numbers, as str() / an f-string writes them and read_csv parses *)
(* them.                                                                   *)
(***************************************************************************)
Numbers == DilemmaIds \cup ReactionTimes \cup {0}
NumTexts == {ToString(n) : n \in Numbers}
ParseNum(s) == CHOOSE n \in Numbers : ToString(n) = s
\* the texts read_csv takes for a missing value (its default na_values)
NaTexts == {"", "NaN", "NA", "null"}

\* f"{x:.2f}" of the non-negative rational num/den
TwoDigits(k) == IF k < 10 THEN "0" \o ToString(k) ELSE ToString(k)
Fixed2(num, den) ==
    LET h == (2 * 100 * num + den) \div (2 * den)
    IN  ToString(h \div 100) \o "." \o TwoDigits(h % 100)

(***************************************************************************)
(* Sequences.                                                              *)
(***************************************************************************)
SeqsUpTo(S, n) == UNION {[1..k -> S] : k \in 0..n}
RECURSIVE Perms(_)
\* the sequences that list every element of S once
Perms(S) ==
    IF S = {} THEN {<<>>}
    ELSE UNION {{<<x>> \o p : p \in Perms(S \ {x})} : x \in S}

RECURSIVE SumSeq(_)
SumSeq(s) == IF s = <<>> THEN 0 ELSE Head(s) + SumSeq(Tail(s))

(***************************************************************************)
(* The results directory.  A file name is the f-string save_results builds *)
(* (stem_pid_date.ext); a content is what a reader finds in the file.      *)
(***************************************************************************)
FileName(stem, pid, date, ext) ==
    [stem |-> stem, pid |-> pid, date |-> date, ext |-> ext]
CsvFile(header, rows) == [kind |-> "csv", header |-> header, rows |-> rows]
JsonFile(rows) == [kind |-> "json", header |-> {}, rows |-> rows]
\* bytes that are no table at all
JunkFile == [kind |-> "junk", header |-> {}, rows |-> <<>>]

\* open(path, 'w') and the writes that follow: the file holds content
WriteFile(d, name, content) ==
    [n \in DOMAIN d \cup {name} |-> IF n = name THEN content ELSE d[n]]

(***************************************************************************)
(* app.py save_results                                                     *)
(***************************************************************************)
\* timestamp.split('T')[0] of an ISO timestamp date "T" time
SplitT(timestamp) == timestamp.date

\* the row save_results writes for one answer record (lines 75-83)
AnswerRow(participant_id, result) ==
    writerow(("Participant ID" :> participant_id)
          @@ ("Dilemma ID" :> ToString(result.dilemmaId))
          @@ ("Dilemma Title" :> result.dilemmaTitle)
          @@ ("Choice" :> result.choice)
          @@ ("Ethical Framework" :> result.framework)
          @@ ("Reaction Time (s)" :> ToString(result.reactionTime))
          @@ ("Timestamp" :> result.timestamp))

\* the summary rows save_results appends after the data (lines 85-99)
SummaryRows(results) ==
    LET total_choices == Len(results)
        utilitarian_choices ==
            Cardinality({i \in 1..total_choices : results[i].framework = "utilitarian"})
        total_reaction_time ==
            SumSeq([i \in 1..total_choices |-> results[i].reactionTime])
        utilitarian_percentage ==
            IF total_choices > 0 THEN Fixed2(100 * utilitarian_choices, total_choices)
            ELSE Fixed2(0, 1)
        deontological_percentage ==
            IF total_choices > 0
            THEN Fixed2(100 * (total_choices - utilitarian_choices), total_choices)
            ELSE Fixed2(100, 1)
        average_reaction_time ==
            IF total_choices > 0 THEN Fixed2(total_reaction_time, total_choices)
            ELSE Fixed2(0, 1)
    IN  << writerow(<<>>),
           writerow("Participant ID" :> "Summary"),
           writerow(("Participant ID" :> "Utilitarian Percentage")
                 @@ ("Dilemma ID" :> (utilitarian_percentage \o "%"))),
           writerow(("Participant ID" :> "Deontological Percentage")
                 @@ ("Dilemma ID" :> (deontological_percentage \o "%"))),
           writerow(("Participant ID" :> "Average Reaction Time")
                 @@ ("Dilemma ID" :> (average_reaction_time \o "s"))) >>

\* the CSV source save_results writes (lines 68-99)
ResultsCsv(participant_id, results) ==
    CsvFile(Columns,
            [i \in 1..Len(results) |-> AnswerRow(participant_id, results[i])]
            \o SummaryRows(results))

\* the JSON copy save_results writes (lines 102-113)
ResultsJson(participant_id, results) ==
    JsonFile([i \in 1..Len(results) |-> AnswerRow(participant_id, results[i])])

\* the keys of an answer record the loop of lines 74-83 reads besides
\* 'framework' and 'reactionTime'
RowKeys == {"dilemmaId", "dilemmaTitle", "choice", "timestamp"}
\* the first answer record that lacks one of them; 0 when none does
FirstKeyError(results) ==
    LET bad == {i \in 1..Len(results) : ~(RowKeys \subseteq DOMAIN results[i])}
    IN  IF bad = {} THEN 0 ELSE CHOOSE i \in bad : \A j \in bad : i <= j

\* the CSV the with block of line 68 leaves when writing row k raised
\* KeyError: created or truncated, the header and the rows before k
PartialCsv(d, filepath, participant_id, results, k) ==
    WriteFile(d, filepath,
              CsvFile(Columns, [i \in 1..(k - 1) |-> AnswerRow(participant_id, results[i])]))

\* save_results on payload data, with the clock reading now:
\* the response status and the directory it leaves.  r['framework'] (line
\* 58) and r['reactionTime'] (line 64) raise KeyError before any file is
\* opened, the keys of the row inside the open CSV file; an unhandled
\* exception is answered 500.
save_results(d, data, now) ==
    IF data.keys = {} \/ "participantId" \notin data.keys \/ "results" \notin data.keys
    THEN [status |-> 400, dir |-> d]
    ELSE
      LET participant_id == data.participantId
          results == data.results
          timestamp == IF "timestamp" \in data.keys THEN data.timestamp ELSE now
          filepath == FileName("trolley_results", participant_id, SplitT(timestamp), "csv")
          json_filepath ==
              FileName("trolley_results", participant_id, SplitT(timestamp), "json")
      IN  IF \E i \in 1..Len(results) :
                ~({"framework", "reactionTime"} \subseteq DOMAIN results[i])
          THEN [status |-> 500, dir |-> d]
          ELSE IF FirstKeyError(results) # 0
          THEN [status |-> 500,
                dir |-> PartialCsv(d, filepath, participant_id, results,
                                   FirstKeyError(results))]
          ELSE [status |-> 200,
                dir |-> WriteFile(WriteFile(d, filepath, ResultsCsv(participant_id, results)),
                                  json_filepath, ResultsJson(participant_id, results))]

(***************************************************************************)
(* analytics.py load_results_from_csv, load_all_results                    *)
(***************************************************************************)
DataFrame(columns, rows) == [none |-> FALSE, columns |-> columns, rows |-> rows]
\* pd.DataFrame()
EmptyFrame == DataFrame({}, <<>>)
\* the None load_results_from_csv returns when the load raised
None == [none |-> TRUE, columns |-> {}, rows |-> <<>>]
\* mutant: the test of line 358 never holds
empty_never(frame) == FALSE
\* DataFrame.empty
empty(frame) == frame.rows = <<>> \/ frame.columns = {}

\* read_csv's column type: numeric when every cell that is present is a number
ColumnIsNumeric(rows, c) ==
    \A i \in 1..Len(rows) : rows[i][c] \in NaTexts \cup NumTexts
ParseCell(text, numeric) ==
    IF text \in NaTexts THEN NaN
    ELSE IF numeric THEN Num(ParseNum(text)) ELSE Str(text)

\* pd.read_csv: raised is TRUE when the file is no table
read_csv(content) ==
    LET numeric == {c \in content.header : ColumnIsNumeric(content.rows, c)}
    IN  IF content.kind # "csv" THEN [raised |-> TRUE, frame |-> None]
        ELSE [raised |-> FALSE,
              frame |-> DataFrame(content.header,
                  [i \in 1..Len(content.rows) |->
                      [c \in content.header |->
                          ParseCell(content.rows[i][c], c \in numeric)]])]

\* mutant: the filter of line 31 left out
DropNullDilemma_keep(frame) == frame

\* df[~df['Dilemma ID'].isna()]
DropNullDilemma(frame) ==
    DataFrame(frame.columns,
              SelectSeq(frame.rows, LAMBDA r : ~isna(r["Dilemma ID"])))

load_results_from_csv(content) ==
    LET r == read_csv(content)
    IN  IF r.raised THEN None
        ELSE IF "Dilemma ID" \notin r.frame.columns THEN None   \* KeyError, caught
        ELSE DropNullDilemma(r.frame)

\* filename.endswith('.csv') and 'trolley_results' in filename
Matches(filename) == filename.ext = "csv" /\ filename.stem = "trolley_results"

\* os.listdir(directory_path) under the test of line 51: the names that pass
\* it, in the order the system lists them, which is any order
listdir(d) == Perms({filename \in DOMAIN d : Matches(filename)})

\* mutant: the first failed load ends the loop
RECURSIVE all_dfs_abort(_, _)
all_dfs_abort(d, listing) ==
    IF listing = <<>> THEN <<>>
    ELSE LET frame == load_results_from_csv(d[Head(listing)])
         IN  IF ~frame.none THEN <<frame>> \o all_dfs_abort(d, Tail(listing))
             ELSE <<>>

\* the loop of load_all_results over those names: all_dfs
RECURSIVE all_dfs(_, _)
all_dfs(d, listing) ==
    IF listing = <<>> THEN <<>>
    ELSE LET frame == load_results_from_csv(d[Head(listing)])
             rest == all_dfs(d, Tail(listing))
         IN  IF ~frame.none THEN <<frame>> \o rest ELSE rest

\* pd.concat(frames, ignore_index=True)
RECURSIVE ConcatRows(_)
ConcatRows(frames) ==
    IF frames = <<>> THEN <<>> ELSE Head(frames).rows \o ConcatRows(Tail(frames))
concat(frames) ==
    DataFrame(UNION {frames[i].columns : i \in 1..Len(frames)}, ConcatRows(frames))

load_all_results(d, listing) ==
    LET frames == all_dfs(d, listing)
    IN  IF frames # <<>> THEN concat(frames) ELSE EmptyFrame

(***************************************************************************)
(* Numbers.  A float is the exact rational num/den (den > 0), or NaN.      *)
(***************************************************************************)
Rat(num, den) == [nan |-> FALSE, num |-> num, den |-> den]
NaNf == [nan |-> TRUE, num |-> 0, den |-> 1]
\* mutant: floor division, a // b
Div_floor(a, b) == IF b = 0 THEN NaNf ELSE Rat(a \div b, 1)
\* a / b on numpy numbers: 0 / 0 is nan (a warning, no exception)
Div(a, b) == IF b = 0 THEN NaNf ELSE Rat(a, b)
Lt(a, b) == ~a.nan /\ ~b.nan /\ a.num * b.den < b.num * a.den
Eq(a, b) == ~a.nan /\ ~b.nan /\ a.num * b.den = b.num * a.den
\* mutant: the share is left a fraction of 1
Times100_not(a) == a
\* (...) * 100
Times100(a) == IF a.nan THEN a ELSE Rat(100 * a.num, a.den)

RECURSIVE SumOver(_, _)
\* the sum of f[x] over x in S
SumOver(f, S) ==
    IF S = {} THEN 0
    ELSE LET x == CHOOSE y \in S : TRUE IN f[x] + SumOver(f, S \ {x})

\* mutant: the value of the first row of the group instead of the mean
mean_first(rows, I, c) ==
    LET J == {i \in I : ~isna(rows[i][c])}
    IN  IF J = {} THEN NaNf
        ELSE Rat(rows[CHOOSE i \in J : \A j \in J : i <= j][c].n, 1)
\* Series.mean() over the rows I of a numeric column: NaN cells are skipped
mean(rows, I, c) ==
    LET J == {i \in I : ~isna(rows[i][c])}
    IN  Div(SumOver([i \in J |-> rows[i][c].n], J), Cardinality(J))

(***************************************************************************)
(* analytics.py: the aggregation stages                                    *)
(***************************************************************************)
utilitarian == Str("utilitarian")
deontological == Str("deontological")

\* Series.value_counts() over the rows I of column c: NaN is not counted
value_counts(rows, I, c) ==
    [v \in {rows[i][c] : i \in I} \ {NaN} |->
        Cardinality({i \in I : rows[i][c] = v})]
\* dict.get(key, default) / Series.get(key, default)
get(counts, key, default) == IF key \in DOMAIN counts THEN counts[key] ELSE default

calculate_framework_percentages(frame) ==
    LET framework_counts ==
            value_counts(frame.rows, DOMAIN frame.rows, "Ethical Framework")
        total == SumOver(framework_counts, DOMAIN framework_counts)
    IN  [utilitarian |-> Times100(Div(get(framework_counts, utilitarian, 0), total)),
         deontological |-> Times100(Div(get(framework_counts, deontological, 0), total))]

\* analyze_reaction_times: the overall mean (median, std, min, max and the
\* per-framework table are computed from the same column and read by no stage)
analyze_reaction_times(frame) ==
    [mean |-> mean(frame.rows, DOMAIN frame.rows, "Reaction Time (s)")]

\* mutant: the sample standard deviation (ddof = 1)
np_std_sq_sample(u, d) == Div(u * d, (u + d) * (u + d - 1))

\* np.std(xs) of u ones and d zeros, held as its square u*d/(u+d)^2 (the
\* root is monotone, so order and zero are those of the square);
\* np.std([]) is nan
np_std_sq(u, d) == Div(u * d, (u + d) * (u + d))

\* the groups of df.groupby(['Dilemma ID', 'Dilemma Title']): a row with a
\* NaN key is in no group
DilemmaKeys(frame) ==
    {<<frame.rows[i]["Dilemma ID"], frame.rows[i]["Dilemma Title"]>> :
        i \in {j \in DOMAIN frame.rows :
                  /\ ~isna(frame.rows[j]["Dilemma ID"])
                  /\ ~isna(frame.rows[j]["Dilemma Title"])}}
DilemmaGroup(frame, key) ==
    {i \in DOMAIN frame.rows :
        /\ frame.rows[i]["Dilemma ID"] = key[1]
        /\ frame.rows[i]["Dilemma Title"] = key[2]}

\* one row of dilemma_stats (lines 123-140)
DilemmaStat(frame, key) ==
    LET I == DilemmaGroup(frame, key)
        framework_counts == value_counts(frame.rows, I, "Ethical Framework")
        total == SumOver(framework_counts, DOMAIN framework_counts)
        utilitarian_count == get(framework_counts, utilitarian, 0)
        deontological_count == get(framework_counts, deontological, 0)
    IN  [id |-> key[1],
         title |-> key[2],
         framework_counts |-> framework_counts,
         total |-> total,
         rt_mean |-> mean(frame.rows, I, "Reaction Time (s)"),
         utilitarian_pct |-> Times100(Div(utilitarian_count, total)),
         deontological_pct |-> Times100(Div(deontological_count, total)),
         choice_std_sq |-> np_std_sq(utilitarian_count, deontological_count)]

\* analyze_dilemma_responses: the rows of dilemma_stats, or the
\* ZeroDivisionError of line 136 (Python ints: a group with no framework value)
analyze_dilemma_responses(frame) ==
    LET stats == {DilemmaStat(frame, key) : key \in DilemmaKeys(frame)}
    IN  IF \E g \in stats : g.total = 0
        THEN [raised |-> "ZeroDivisionError", stats |-> {}]
        ELSE [raised |-> "", stats |-> stats]

\* df['Framework Numeric'] = ... (line 156): the column is added to df itself
WithFrameworkNumeric(frame) ==
    DataFrame(frame.columns \cup {"Framework Numeric"},
        [i \in DOMAIN frame.rows |->
            [c \in frame.columns \cup {"Framework Numeric"} |->
                IF c = "Framework Numeric"
                THEN (IF frame.rows[i]["Ethical Framework"] = utilitarian
                      THEN Num(1) ELSE Num(0))
                ELSE frame.rows[i][c]]])

\* the two-tailed 5% point of Student's t with k degrees of freedom, times 1000
TCrit1000(k) ==
    CASE k = 1 -> 12706 [] k = 2 -> 4303 [] k = 3 -> 3182 [] k = 4 -> 2776
      [] k = 5 -> 2571  [] k = 6 -> 2447 [] k = 7 -> 2365 [] k = 8 -> 2306
      [] k = 9 -> 2262  [] OTHER -> 2228

\* scipy.stats.pointbiserialr(x, y) on the rows of frame (line 159):
\* fewer than 2 rows raise ValueError; a NaN cell or a constant series gives
\* nan for both results (a warning, no exception); else the coefficient r is
\* held as its sign and its square, and p_value by the test p_value < 0.05
pointbiserialr(frame) ==
    LET rows == frame.rows
        I == DOMAIN rows
        n == Len(rows)
        x == [i \in I |-> rows[i]["Framework Numeric"].n]
        y == [i \in I |-> rows[i]["Reaction Time (s)"].n]
        sx == SumOver(x, I)
        sy == SumOver(y, I)
        cov == n * SumOver([i \in I |-> x[i] * y[i]], I) - sx * sy
        vx == n * SumOver([i \in I |-> x[i] * x[i]], I) - sx * sx
        vy == n * SumOver([i \in I |-> y[i] * y[i]], I) - sy * sy
        undefined ==
            \/ \E i \in I : isna(rows[i]["Reaction Time (s)"])
            \/ vx = 0
            \/ vy = 0
    IN  IF n < 2 THEN [raised |-> "ValueError", nan |-> FALSE, sign |-> 0,
                       sq |-> NaNf, below05 |-> FALSE]
        ELSE IF undefined THEN [raised |-> "", nan |-> TRUE, sign |-> 0,
                                sq |-> NaNf, below05 |-> FALSE]
        ELSE [raised |-> "", nan |-> FALSE,
              sign |-> IF cov > 0 THEN 1 ELSE IF cov < 0 THEN -1 ELSE 0,
              sq |-> Rat(cov * cov, vx * vy),
              \* t^2 = r^2 (n-2) / (1 - r^2) against the critical value
              below05 |-> cov * cov * (n - 2) * 1000000
                          > TCrit1000(n - 2) * TCrit1000(n - 2) * (vx * vy - cov * cov)]

\* find_correlations on the frame that already holds 'Framework Numeric'
find_correlations(frame) ==
    LET r == pointbiserialr(frame)
    IN  [raised |-> r.raised,
         correlation |-> [nan |-> r.nan, sign |-> r.sign, sq |-> r.sq],
         p_value |-> [nan |-> r.nan],
         significant |-> r.below05]

\* mutant: the thresholds are inclusive
get_dominant_framework_ge(utilitarian_pct, deontological_pct) ==
    IF ~Lt(utilitarian_pct, Rat(60, 1)) THEN "Utilitarian"
    ELSE IF ~Lt(deontological_pct, Rat(60, 1)) THEN "Deontological"
    ELSE "Mixed"

\* get_dominant_framework (lines 195-201)
get_dominant_framework(utilitarian_pct, deontological_pct) ==
    IF Lt(Rat(60, 1), utilitarian_pct) THEN "Utilitarian"
    ELSE IF Lt(Rat(60, 1), deontological_pct) THEN "Deontological"
    ELSE "Mixed"

\* mutant: the thresholds of the summary are inclusive
view_dominant_framework_ge(utilitarian_choices, deontological_choices, total_dilemmas) ==
    IF ~Lt(Div(utilitarian_choices, total_dilemmas), Rat(6, 10)) THEN "Utilitarian"
    ELSE IF ~Lt(Div(deontological_choices, total_dilemmas), Rat(6, 10)) THEN "Deontological"
    ELSE "Mixed"

\* view_results.py view_participant_summary, lines 69-75: the label it prints
view_dominant_framework(utilitarian_choices, deontological_choices, total_dilemmas) ==
    IF Lt(Rat(6, 10), Div(utilitarian_choices, total_dilemmas)) THEN "Utilitarian"
    ELSE IF Lt(Rat(6, 10), Div(deontological_choices, total_dilemmas)) THEN "Deontological"
    ELSE "Mixed"

\* view_participant_summary on the table frame it loaded (lines 48-75):
\* "" when it returns before the summary (lines 49-51)
view_participant_summary(frame) ==
    IF frame.none \/ empty(frame) THEN ""
    ELSE LET I == DOMAIN frame.rows
             total_dilemmas == Len(frame.rows)
             utilitarian_choices ==
                 Cardinality({i \in I : frame.rows[i]["Ethical Framework"] = utilitarian})
             deontological_choices ==
                 Cardinality({i \in I : frame.rows[i]["Ethical Framework"] = deontological})
         IN  view_dominant_framework(utilitarian_choices, deontological_choices,
                                     total_dilemmas)

\* one row of participant_stats (lines 179-203)
ParticipantStat(frame, pid) ==
    LET I == {i \in DOMAIN frame.rows : frame.rows[i]["Participant ID"] = pid}
        total_dilemmas == Cardinality(I)
        utilitarian_choices ==
            Cardinality({i \in I : frame.rows[i]["Ethical Framework"] = utilitarian})
        deontological_choices ==
            Cardinality({i \in I : frame.rows[i]["Ethical Framework"] = deontological})
        utilitarian_pct == Times100(Div(utilitarian_choices, total_dilemmas))
        deontological_pct == Times100(Div(deontological_choices, total_dilemmas))
    IN  [participant |-> pid,
         total_dilemmas |-> total_dilemmas,
         utilitarian_choices |-> utilitarian_choices,
         deontological_choices |-> deontological_choices,
         avg_reaction_time |-> mean(frame.rows, I, "Reaction Time (s)"),
         utilitarian_pct |-> utilitarian_pct,
         deontological_pct |-> deontological_pct,
         dominant_framework |-> get_dominant_framework(utilitarian_pct, deontological_pct)]

\* participant_framework_analysis: groupby('Participant ID') leaves out NaN
participant_framework_analysis(frame) ==
    {ParticipantStat(frame, pid) :
        pid \in {frame.rows[i]["Participant ID"] : i \in DOMAIN frame.rows} \ {NaN}}

(***************************************************************************)
(* analytics.py generate_report                                            *)
(***************************************************************************)
\* the line that asks for the first three rows (299, 302)
TopN == 3

\* DataFrame.sort_values(by, ascending=False): descending, NaN last.  The
\* default kind is quicksort, which does not keep the order of equal keys:
\* every order of the rows that is descending in by is a possible result.
sort_values(stats, by) ==
    {p \in Perms(stats) :
        \A i, j \in 1..Len(p) :
            i < j => /\ ~Lt(p[i][by], p[j][by])
                     /\ (p[i][by].nan => p[j][by].nan)}
head(s, n) == SubSeq(s, 1, IF Len(s) < n THEN Len(s) ELSE n)

\* the report dictionary of lines 305-332, from the locals l of generate_report
Report(frame, l, high_disagreement_dilemmas, long_rt_dilemmas) ==
    [none |-> FALSE,
     summary |->
        [total_participants |->
             Cardinality({frame.rows[i]["Participant ID"] :
                             i \in DOMAIN frame.rows} \ {NaN}),
         total_responses |-> Len(frame.rows),
         framework_distribution |->
             [utilitarian_percentage |-> l.framework_percentages.utilitarian,
              deontological_percentage |-> l.framework_percentages.deontological],
         reaction_times |-> l.reaction_time_stats],
     framework_reaction_time_correlation |->
        [correlation |-> l.correlation_results.correlation,
         p_value |-> l.correlation_results.p_value,
         significant |-> l.correlation_results.significant],
     participant_framework_distribution |->
        [utilitarian_dominant |->
             Cardinality({q \in l.participant_stats : q.dominant_framework = "Utilitarian"}),
         deontological_dominant |->
             Cardinality({q \in l.participant_stats : q.dominant_framework = "Deontological"}),
         mixed |->
             Cardinality({q \in l.participant_stats : q.dominant_framework = "Mixed"})],
     high_disagreement_dilemmas |->
        [i \in DOMAIN high_disagreement_dilemmas |->
            [id |-> high_disagreement_dilemmas[i].id,
             title |-> high_disagreement_dilemmas[i].title,
             choice_std_sq |-> high_disagreement_dilemmas[i].choice_std_sq]],
     long_reaction_time_dilemmas |->
        [i \in DOMAIN long_rt_dilemmas |->
            [id |-> long_rt_dilemmas[i].id,
             title |-> long_rt_dilemmas[i].title,
             rt_mean |-> long_rt_dilemmas[i].rt_mean]]]

\* no statistics yet
NoLocals == [computed |-> FALSE]

\* generate_report(df, output_file): the ways it can end.  Each is
\* [raised, frame, locals, report]: the exception that left it ("" for none),
\* df as the call leaves it, its locals and the report it wrote and returned.
generate_report(frame) ==
    LET framework_percentages == calculate_framework_percentages(frame)
        reaction_time_stats == analyze_reaction_times(frame)
        dilemma == analyze_dilemma_responses(frame)
        numeric == WithFrameworkNumeric(frame)
        correlation_results == find_correlations(numeric)
        l == [computed |-> TRUE,
              framework_percentages |-> framework_percentages,
              reaction_time_stats |-> reaction_time_stats,
              dilemma_stats |-> dilemma.stats,
              correlation_results |-> correlation_results,
              participant_stats |-> participant_framework_analysis(numeric)]
    IN  IF dilemma.raised # ""
        THEN {[raised |-> dilemma.raised, frame |-> frame,
               locals |-> NoLocals, report |-> None]}
        ELSE IF correlation_results.raised # ""
        THEN {[raised |-> correlation_results.raised, frame |-> numeric,
               locals |-> NoLocals, report |-> None]}
        ELSE {[raised |-> "", frame |-> numeric, locals |-> l,
               report |-> Report(numeric, l, head(hd, TopN), head(lr, TopN))] :
                 hd \in sort_values(dilemma.stats, "choice_std_sq"),
                 lr \in sort_values(dilemma.stats, "rt_mean")}

(***************************************************************************)
(* analytics.py generate_visualizations: the image files it saves.  The    *)
(* fourth and fifth chart are drawn from analyze_dilemma_responses and     *)
(* participant_framework_analysis.                                         *)
(***************************************************************************)
PngFile == [kind |-> "png", header |-> {}, rows |-> <<>>]
FirstCharts == {"visualizations/framework_distribution.png",
                "visualizations/reaction_time_distribution.png",
                "visualizations/reaction_time_by_framework.png"}
LastCharts == {"visualizations/dilemma_framework_distribution.png",
               "visualizations/participant_framework_distribution.png"}
\* the ways generate_visualizations can end.  Plotting the bar chart of
\* an empty value_counts (line 221: no record holds a framework) is left to
\* pandas, which may refuse it with TypeError before any chart is saved.
generate_visualizations(frame) ==
    LET dilemma == analyze_dilemma_responses(frame)
        framework_counts ==
            value_counts(frame.rows, DOMAIN frame.rows, "Ethical Framework")
    IN  (IF DOMAIN framework_counts = {}
         THEN {[raised |-> "TypeError", out |-> <<>>]} ELSE {})
        \cup
        {IF dilemma.raised # ""
         THEN [raised |-> dilemma.raised, out |-> [f \in FirstCharts |-> PngFile]]
         ELSE [raised |-> "", out |-> [f \in FirstCharts \cup LastCharts |-> PngFile]]}

(***************************************************************************)
(* analytics.py run_analysis from line 358 on, for the table frame that    *)
(* load_all_results returned: the ways it can end, each the values of      *)
(* <<pc, df, locals, report, exc, out>> it leaves.                         *)
(***************************************************************************)

Ending(p, frame, l, r, e, o) ==
    [pc |-> p, df |-> frame, locals |-> l, report |-> r, exc |-> e, out |-> o]

run_analysis(frame) ==
    IF empty(frame)
    THEN {Ending("no_results", frame, NoLocals, None, "", <<>>)}
    ELSE UNION {
           IF viz.raised # ""
           THEN {Ending("raised", frame, NoLocals, None, viz.raised, viz.out)}
           ELSE {IF g.raised # ""
                 THEN Ending("raised", frame, NoLocals, None, g.raised, viz.out)
                 ELSE Ending("done", frame, g.locals, g.report, "",
                             WriteFile(WriteFile(viz.out, "analysis_report.json", g.report),
                                       "combined_results.csv", g.frame)) :
                   g \in generate_report(frame)} :
           viz \in generate_visualizations(frame)}

(***************************************************************************)
(* Inputs.                                                                 *)
(***************************************************************************)
Timestamps == [date : Dates, time : {"12:00:00"}]
isoformat(timestamp) == timestamp.date \o "T" \o timestamp.time

\* an answer record as the experiment page posts it
Answer(id, framework, reactionTime) ==
    [dilemmaId |-> id, dilemmaTitle |-> DilemmaTitle(id),
     choice |-> IF framework = "utilitarian" THEN "left" ELSE "right",
     framework |-> framework, reactionTime |-> reactionTime,
     timestamp |-> isoformat(CHOOSE t \in Timestamps : TRUE)]

\* the answer records of the submissions of Spec
SubmittedAnswers == {Answer(1, "utilitarian", 1), Answer(1, "deontological", 2)}

Payload(keys, participantId, results, timestamp) ==
    [keys |-> keys, participantId |-> participantId, results |-> results,
     timestamp |-> timestamp]
\* request bodies: complete ones, with and without 'timestamp', and ones that
\* lack 'participantId' or 'results' (keys = {} is the missing body)
Payloads ==
    {Payload(k, p, r, t) :
        k \in {{"participantId", "results", "timestamp"}, {"participantId", "results"}},
        p \in Participants, r \in SeqsUpTo(SubmittedAnswers, MaxResults),
        t \in Timestamps}
    \cup
    {Payload(k, "p1", <<>>, t) :
        k \in {{}, {"participantId", "timestamp"}, {"results", "timestamp"}},
        t \in Timestamps}

\* an answer record without one of its keys
Without(result, key) == [k \in DOMAIN result \ {key} |-> result[k]]
\* request bodies with an answer record that lacks a key, alone or after a
\* complete record
IncompletePayloads ==
    {Payload({"participantId", "results", "timestamp"}, "p1", first \o <<Without(a, key)>>, t) :
        first \in {<<>>, <<Answer(1, "utilitarian", 1)>>},
        a \in {Answer(1, "deontological", 2)},
        key \in RowKeys \cup {"framework", "reactionTime"},
        t \in Timestamps}

\* a text row of a source that did not come from save_results
TextRow(pid, id, framework, reactionTime) ==
    writerow(("Participant ID" :> pid)
          @@ ("Dilemma ID" :> id)
          @@ ("Dilemma Title" :> (IF id = "" THEN "" ELSE DilemmaTitle(ParseNum(id))))
          @@ ("Choice" :> (IF framework = "utilitarian" THEN "left" ELSE "right"))
          @@ ("Ethical Framework" :> framework)
          @@ ("Reaction Time (s)" :> reactionTime)
          @@ ("Timestamp" :> isoformat(CHOOSE t \in Timestamps : TRUE)))

\* sources put into the results directory by other means: a table with and
\* without rows that lack a Dilemma ID, a table without the 'Dilemma ID'
\* column, and a file that is no table
ForeignRows == {TextRow("p3", "1", "utilitarian", "2"),
                TextRow("p3", "1", "deontological", "1"),
                TextRow("Total", "", "", "")}
ForeignSources ==
    {CsvFile(Columns, rows) : rows \in SeqsUpTo(ForeignRows, MaxRows)}
    \cup {CsvFile(Columns \ {"Dilemma ID"},
                  <<[c \in Columns \ {"Dilemma ID"} |->
                        TextRow("p3", "1", "utilitarian", "2")[c]]>>),
          JunkFile}
ForeignName == FileName("trolley_results", "p3", "2024-01-02", "csv")
\* a table whose name does not hold 'trolley_results'
NotesName == FileName("notes", "", "", "csv")
NotesFile == CsvFile(Columns, <<TextRow("p4", "1", "deontological", "1")>>)

(***************************************************************************)
(* Actions of the pipeline.                                                *)
(***************************************************************************)
\* the results directory holds a table that is no result source; nothing
\* has run
Init ==
    /\ dir = (NotesName :> NotesFile)
    /\ pc = "idle"
    /\ df = EmptyFrame
    /\ locals = NoLocals
    /\ report = None
    /\ exc = ""
    /\ out = <<>>

\* POST /api/results
SaveResults ==
    /\ pc = "idle"
    /\ \E data \in Payloads, now \in Timestamps :
          dir' = save_results(dir, data, now).dir
    /\ UNCHANGED <<pc, df, locals, report, exc, out>>

\* a source appears in the results directory without save_results
PutSource ==
    /\ pc = "idle"
    /\ ForeignName \notin DOMAIN dir
    /\ \E content \in ForeignSources : dir' = WriteFile(dir, ForeignName, content)
    /\ UNCHANGED <<pc, df, locals, report, exc, out>>

\* the end of one run, written to the state
Ends(e) ==
    /\ pc' = e.pc
    /\ df' = e.df
    /\ locals' = e.locals
    /\ report' = e.report
    /\ exc' = e.exc
    /\ out' = e.out

\* python analytics.py <results_directory> <output_directory>
RunAnalysis ==
    /\ pc = "idle"
    /\ \E frame \in {load_all_results(dir, listing) : listing \in listdir(dir)} :
          \E e \in run_analysis(frame) : Ends(e)
    /\ UNCHANGED dir

Next == SaveResults \/ PutSource \/ RunAnalysis

Spec == Init /\ [][Next]_vars

\* POST /api/results, also with answer records that lack a key
SaveAnyResults ==
    /\ pc = "idle"
    /\ \E data \in Payloads \cup IncompletePayloads, now \in Timestamps :
          dir' = save_results(dir, data, now).dir
    /\ UNCHANGED <<pc, df, locals, report, exc, out>>
\* the submission endpoint alone
SpecSubmit == Init /\ [][SaveAnyResults]_vars

(***************************************************************************)
(* The aggregation stages on drawn tables: the results directory holds one *)
(* source, and the analysis runs on it.                                    *)
(***************************************************************************)
OneSource(rows) == (ForeignName :> CsvFile(Columns, rows))

\* records of two participants on two dilemmas
AggRows ==
    {TextRow(p, ToString(id), f, ToString(rt)) :
        p \in Participants, id \in DilemmaIds, f \in Frameworks,
        rt \in ReactionTimes}
InitAgg ==
    /\ \E rows \in SeqsUpTo(AggRows, MaxTable) : dir = OneSource(rows)
    /\ pc = "idle"
    /\ df = EmptyFrame
    /\ locals = NoLocals
    /\ report = None
    /\ exc = ""
    /\ out = <<>>
SpecAgg == InitAgg /\ [][RunAnalysis]_vars

\* the answers of one participant to one dilemma: long enough a table for
\* a share of exactly 60%; a record may hold a framework outside the two
\* known ones, or none
ChoiceRows ==
    {TextRow("p1", "1", f, "1") : f \in Frameworks \cup {"virtue", ""}}
InitChoices ==
    /\ \E rows \in SeqsUpTo(ChoiceRows, MaxAnswers) : dir = OneSource(rows)
    /\ pc = "idle"
    /\ df = EmptyFrame
    /\ locals = NoLocals
    /\ report = None
    /\ exc = ""
    /\ out = <<>>
SpecChoices == InitChoices /\ [][RunAnalysis]_vars

\* records of two participants on two dilemmas, each participant with a
\* reaction time of their own: the tables whose rows are reordered
PermRows ==
    {TextRow(p, ToString(id), f, IF p = "p1" THEN "1" ELSE "2") :
        p \in Participants, id \in DilemmaIds, f \in Frameworks}
InitPerm ==
    /\ \E rows \in SeqsUpTo(PermRows, MaxPermTable) : dir = OneSource(rows)
    /\ pc = "idle"
    /\ df = EmptyFrame
    /\ locals = NoLocals
    /\ report = None
    /\ exc = ""
    /\ out = <<>>
SpecPerm == InitPerm /\ [][RunAnalysis]_vars

(***************************************************************************)
(* Properties.                                                             *)
(***************************************************************************)
\* the rows of a parsed table that hold a Dilemma ID
KeptRows(src) == {i \in DOMAIN src : ~isna(src[i]["Dilemma ID"])}
\* the k-th smallest of a set of numbers
Kth(S, k) == CHOOSE i \in S : Cardinality({j \in S : j <= i}) = k
\* the source is a table with a 'Dilemma ID' column: its load does not fail
Parses(content) == content.kind = "csv" /\ "Dilemma ID" \in content.header
\* the rows of a source that hold a Dilemma ID, in source order; none when
\* the load fails
Contribution(content) ==
    IF ~Parses(content) THEN <<>>
    ELSE LET src == read_csv(content).frame.rows
         IN  [k \in 1..Cardinality(KeptRows(src)) |-> src[Kth(KeptRows(src), k)]]
\* the files load_all_results is to load
ResultSources ==
    {n \in DOMAIN dir : n.ext = "csv" /\ n.stem = "trolley_results"}
RECURSIVE Flatten(_)
Flatten(ss) == IF ss = <<>> THEN <<>> ELSE Head(ss) \o Flatten(Tail(ss))

\* C1: for every source whose load does not fail, load_results_from_csv
\* returns exactly the source's rows that hold a Dilemma ID, in source
\* order; no row of the combined table lacks a Dilemma ID.
C1_LoaderKeepsRowsWithDilemmaId ==
    /\ \A n \in DOMAIN dir :
          Parses(dir[n]) =>
             LET t == load_results_from_csv(dir[n])
             IN  ~t.none /\ t.rows = Contribution(dir[n])
    /\ \A i \in DOMAIN df.rows : ~isna(df.rows[i]["Dilemma ID"])
\* a run has loaded a source that has rows with and rows without a Dilemma ID
C1_Witness ==
    /\ pc = "done"
    /\ \E n \in ResultSources :
          /\ Parses(dir[n])
          /\ Contribution(dir[n]) # <<>>
          /\ \E i \in DOMAIN dir[n].rows : dir[n].rows[i]["Dilemma ID"] = ""

\* the labels of the summary rows of save_results
TrailerLabels == {"Summary", "Utilitarian Percentage", "Deontological Percentage",
                  "Average Reaction Time"}
\* C2: loading the CSV source save_results persisted for a submission
\* yields exactly the submission's answer records (those of its JSON copy)
\* and none of the summary rows.
C2_RoundTripYieldsOnlyAnswers ==
    \A n \in DOMAIN dir :
        (n.stem = "trolley_results" /\ n.ext = "csv" /\ n.pid \in Participants) =>
            LET t == load_results_from_csv(dir[n])
                answers == dir[[n EXCEPT !.ext = "json"]].rows
            IN  /\ ~t.none
                /\ Len(t.rows) = Len(answers)
                /\ \A i \in DOMAIN t.rows :
                      t.rows[i]["Participant ID"] \notin {Str(l) : l \in TrailerLabels}

\* C3: the combined table is the concatenation, in the order of some
\* listing of the matching sources, of the rows each source contributes:
\* its rows that hold a Dilemma ID, or none when its load failed.  The run
\* goes on past a failed load.
C3_CombinerConcatenatesLoadedSources ==
    pc # "idle" =>
        \E listing \in Perms(ResultSources) :
            df.rows = Flatten([k \in DOMAIN listing |-> Contribution(dir[listing[k]])])
\* a run combined two sources with rows while a third failed to load
C3_Witness ==
    /\ pc = "done"
    /\ \E n \in ResultSources : ~Parses(dir[n])
    /\ Cardinality({n \in ResultSources : Contribution(dir[n]) # <<>>}) >= 2

\* C4: when no source yields a row, the run ends in the "no results"
\* outcome: an empty table, no report, no exception, nothing written.
C4_NoDataEndsCleanly ==
    (pc # "idle" /\ \A n \in ResultSources : Contribution(dir[n]) = <<>>) =>
        /\ pc = "no_results"
        /\ df.rows = <<>>
        /\ report = None
        /\ exc = ""
        /\ out = <<>>
\* a run over a directory whose only matching source failed to load or
\* held no record
C4_Witness == pc = "no_results" /\ ResultSources # {}

\* the framework of every row of I is one of the two known ones
Known(frame, I) ==
    \A i \in I : frame.rows[i]["Ethical Framework"] \in {utilitarian, deontological}
\* the rows of I whose framework is f
CountOf(frame, I, f) ==
    Cardinality({i \in I : frame.rows[i]["Ethical Framework"] = f})
\* a + b = 100
SumsTo100(a, b) ==
    ~a.nan /\ ~b.nan /\ a.num * b.den + b.num * a.den = 100 * a.den * b.den
\* a = c / n * 100
IsShare(a, c, n) == ~a.nan /\ a.num * n = 100 * c * a.den

\* C5: on a non-empty combined table whose frameworks are all known,
\* calculate_framework_percentages returns two numbers that sum to 100,
\* each count(framework) / total * 100; a framework no record holds gets 0.
\* The report of a finished run carries these numbers.
C5_OverallPercentagesSumTo100 ==
    (pc # "idle" /\ df.rows # <<>> /\ Known(df, DOMAIN df.rows)) =>
        LET fp == calculate_framework_percentages(df)
            I == DOMAIN df.rows
        IN  /\ SumsTo100(fp.utilitarian, fp.deontological)
            /\ IsShare(fp.utilitarian, CountOf(df, I, utilitarian), Len(df.rows))
            /\ IsShare(fp.deontological, CountOf(df, I, deontological), Len(df.rows))
            /\ (CountOf(df, I, utilitarian) = 0 => fp.utilitarian.num = 0)
            /\ (CountOf(df, I, deontological) = 0 => fp.deontological.num = 0)
            /\ pc = "done" =>
                  /\ report.summary.framework_distribution.utilitarian_percentage
                        = fp.utilitarian
                  /\ report.summary.framework_distribution.deontological_percentage
                        = fp.deontological
\* a finished run over several records none of which is deontological
C5_Witness ==
    /\ pc = "done"
    /\ Len(df.rows) = 3
    /\ Known(df, DOMAIN df.rows)
    /\ CountOf(df, DOMAIN df.rows, deontological) = 0
    /\ report.summary.framework_distribution.utilitarian_percentage = Rat(300, 3)

\* the rows of the participant pid
ParticipantGroup(frame, pid) ==
    {i \in DOMAIN frame.rows : frame.rows[i]["Participant ID"] = pid}

\* C6: for every row of dilemma_stats and of participant_stats whose group
\* holds known frameworks only, Utilitarian % + Deontological % = 100 and
\* the two framework counts sum to the number of records of the group.
C6_GroupPercentagesSumTo100 ==
    locals.computed =>
        /\ \A g \in locals.dilemma_stats :
              LET I == DilemmaGroup(df, <<g.id, g.title>>)
              IN  Known(df, I) =>
                     /\ SumsTo100(g.utilitarian_pct, g.deontological_pct)
                     /\ get(g.framework_counts, utilitarian, 0)
                          + get(g.framework_counts, deontological, 0) = Cardinality(I)
        /\ \A q \in locals.participant_stats :
              LET I == ParticipantGroup(df, q.participant)
              IN  Known(df, I) =>
                     /\ SumsTo100(q.utilitarian_pct, q.deontological_pct)
                     /\ q.utilitarian_choices + q.deontological_choices = Cardinality(I)
                     /\ q.total_dilemmas = Cardinality(I)
\* a finished run with a dilemma both frameworks were chosen for and a
\* participant group that holds a record with no known framework
C6_Witness ==
    /\ locals.computed
    /\ \E g \in locals.dilemma_stats :
          /\ Known(df, DilemmaGroup(df, <<g.id, g.title>>))
          /\ get(g.framework_counts, utilitarian, 0) > 0
          /\ get(g.framework_counts, deontological, 0) > 0
    /\ \E q \in locals.participant_stats :
          /\ Known(df, ParticipantGroup(df, q.participant))
          /\ q.utilitarian_choices > 0
          /\ q.deontological_choices > 0
    /\ \E q \in locals.participant_stats :
          ~Known(df, ParticipantGroup(df, q.participant))

\* the population variance of u ones and n - u zeros, from its definition:
\* the mean of the squared distances to the mean u / n
PopulationVariance(u, n) == Rat(u * (n - u) * (n - u) + (n - u) * u * u, n * n * n)
\* the score of the row g of dilemma_stats is the population standard
\* deviation of {1 if utilitarian else 0} over the records of its group
\* (both held as squares): 0 when the records agree, and for a 50/50 split
\* not below the score of any split of as many records
DisagreementScoreOf(g) ==
    LET I == DilemmaGroup(df, <<g.id, g.title>>)
        n == Cardinality(I)
        u == CountOf(df, I, utilitarian)
    IN  /\ Eq(g.choice_std_sq, PopulationVariance(u, n))
        /\ (\A i, j \in I : df.rows[i]["Ethical Framework"] = df.rows[j]["Ethical Framework"])
              => (~g.choice_std_sq.nan /\ g.choice_std_sq.num = 0)
        /\ 2 * u = n =>
              \A v \in 0..n : ~Lt(g.choice_std_sq, np_std_sq(v, n - v))

\* C7 as stated: the Choice Std Dev of every dilemma group is the
\* population standard deviation of {1 if utilitarian else 0} over the
\* group's respondents, 0 for a unanimous group, maximal at the 50/50 split.
C7_DisagreementScoreAnyGroup ==
    locals.computed => \A g \in locals.dilemma_stats : DisagreementScoreOf(g)
\* C7 amended: the same, for every dilemma group whose records all hold
\* one of the two known frameworks.
C7_DisagreementScoreKnownGroup ==
    locals.computed =>
        \A g \in locals.dilemma_stats :
            Known(df, DilemmaGroup(df, <<g.id, g.title>>)) => DisagreementScoreOf(g)
\* a finished run over a dilemma that four respondents split 50/50
C7_Witness ==
    /\ locals.computed
    /\ \E g \in locals.dilemma_stats :
          LET I == DilemmaGroup(df, <<g.id, g.title>>)
          IN  /\ Known(df, I)
              /\ Cardinality(I) = 4
              /\ CountOf(df, I, utilitarian) = 2
              /\ g.choice_std_sq = Rat(4, 16)

\* C8: every participant gets one of the three labels: Utilitarian exactly
\* when more than 60% of the participant's records are utilitarian,
\* Deontological exactly when more than 60% are deontological, Mixed
\* otherwise (so at exactly 60%); the two thresholds are never both passed.
C8_DominantFrameworkLabel ==
    locals.computed =>
        \A q \in locals.participant_stats :
            LET I == ParticipantGroup(df, q.participant)
                n == Cardinality(I)
                u == CountOf(df, I, utilitarian)
                d == CountOf(df, I, deontological)
            IN  /\ q.dominant_framework \in {"Utilitarian", "Deontological", "Mixed"}
                /\ q.dominant_framework = "Utilitarian" <=> 100 * u > 60 * n
                /\ q.dominant_framework = "Deontological" <=> 100 * d > 60 * n
                /\ q.dominant_framework = "Mixed" <=>
                      (100 * u <= 60 * n /\ 100 * d <= 60 * n)
                /\ ~(100 * u > 60 * n /\ 100 * d > 60 * n)
\* a finished run with a participant at exactly 60% utilitarian, labelled Mixed
C8_Witness ==
    /\ locals.computed
    /\ \E q \in locals.participant_stats :
          /\ q.total_dilemmas = 5
          /\ q.utilitarian_choices = 3
          /\ q.dominant_framework = "Mixed"

\* a ranks before b: the higher score first, the lower Dilemma ID first
\* among equal scores
RanksBefore(a, b, by) ==
    \/ Lt(b[by], a[by])
    \/ (Eq(a[by], b[by]) /\ a.id.n < b.id.n)
\* list holds the first min(TopN, number of dilemmas) rows of stats in that
\* ranking
IsTopRanking(list, stats, by) ==
    /\ Len(list) = (IF Cardinality(stats) < TopN THEN Cardinality(stats) ELSE TopN)
    /\ \A i \in DOMAIN list :
          \E g \in stats : g.id = list[i].id /\ g.title = list[i].title
                              /\ g[by] = list[i][by]
    /\ \A i, j \in DOMAIN list : i < j => RanksBefore(list[i], list[j], by)
    /\ \A g \in stats :
          (\A i \in DOMAIN list : list[i].id # g.id) =>
              \A i \in DOMAIN list : RanksBefore(list[i], g, by)

\* C9: the report lists the first min(3, number of dilemmas) dilemmas by
\* Choice Std Dev descending, and by mean reaction time descending, equal
\* scores in ascending Dilemma ID; no dilemma left out ranks before a
\* listed one.
C9_RankingsBreakTiesByDilemmaId ==
    pc = "done" =>
        /\ IsTopRanking(report.high_disagreement_dilemmas, locals.dilemma_stats,
                        "choice_std_sq")
        /\ IsTopRanking(report.long_reaction_time_dilemmas, locals.dilemma_stats,
                        "rt_mean")

\* either series of the correlation has no variance, or there are fewer
\* than two records
ZeroVariance(frame) ==
    \/ Len(frame.rows) < 2
    \/ \A i, j \in DOMAIN frame.rows :
          (frame.rows[i]["Ethical Framework"] = utilitarian)
             <=> (frame.rows[j]["Ethical Framework"] = utilitarian)
    \/ \A i, j \in DOMAIN frame.rows :
          frame.rows[i]["Reaction Time (s)"] = frame.rows[j]["Reaction Time (s)"]

\* C10: on a table with zero variance in either series find_correlations
\* ends in an error the caller sees, and no result of find_correlations
\* holds a NaN correlation or p_value.
C10_UndefinedCorrelationIsAnError ==
    (pc # "idle" /\ df.rows # <<>>) =>
        /\ ZeroVariance(df) => (pc = "raised" /\ exc # "")
        /\ locals.computed =>
              /\ ~locals.correlation_results.correlation.nan
              /\ ~locals.correlation_results.p_value.nan

\* the answer records load_all_results finds in directory d (the rows that
\* hold a choice)
LoadedAnswers(d) ==
    LET rows == load_all_results(d, CHOOSE listing \in listdir(d) : TRUE).rows
    IN  {rows[i] : i \in {j \in DOMAIN rows : ~isna(rows[j]["Choice"])}}

\* C17: no step loses an answer record an earlier accepted submission
\* persisted: what load_all_results finds before the step it finds after it.
C17_SubmissionsAreNeverOverwritten ==
    [][LoadedAnswers(dir) \subseteq LoadedAnswers(dir')]_vars

\* C18: a submission save_results does not accept (status 400, or an
\* answer record that lacks a key) leaves the results directory as it was:
\* no file created, truncated or partially written.
C18_RejectedSubmissionWritesNothing ==
    \A data \in Payloads \cup IncompletePayloads, now \in Timestamps :
        save_results(dir, data, now).status # 200 =>
            save_results(dir, data, now).dir = dir

\* the records of participant pid, as a table
RecordsOf(frame, pid) ==
    DataFrame(frame.columns,
              SelectSeq(frame.rows, LAMBDA r : r["Participant ID"] = pid))

\* C19: for the records of every participant, the label of
\* view_participant_summary (share > 0.6) is the label
\* participant_framework_analysis gives (percentage > 60), also at exactly
\* 60%.
C19_SummaryLabelIsAnalysisLabel ==
    locals.computed =>
        \A q \in locals.participant_stats :
            view_participant_summary(RecordsOf(df, q.participant)) = q.dominant_framework
\* a participant at exactly 60% utilitarian gets Mixed from both, and one
\* above it Utilitarian from both
C19_Witness ==
    /\ locals.computed
    /\ \E q \in locals.participant_stats :
          /\ 10 * q.utilitarian_choices = 6 * q.total_dilemmas
          /\ q.dominant_framework = "Mixed"
          /\ view_participant_summary(RecordsOf(df, q.participant)) = "Mixed"

\* the section holds the three results of a test that ran
HoldsTestResult(section) ==
    {"correlation", "p_value", "significant"} \subseteq DOMAIN section

\* C11: when the correlation of a non-empty table cannot be computed, the
\* run still ends with the report written, its other sections computed as
\* usual, and the correlation section does not hold a coefficient, a
\* p-value and a significance flag as though the test had run.
C11_CorrelationSectionMarkedUnavailable ==
    (pc # "idle" /\ df.rows # <<>> /\ ZeroVariance(df)) =>
        /\ pc = "done"
        /\ "analysis_report.json" \in DOMAIN out
        /\ out["analysis_report.json"] = report
        /\ report.summary.framework_distribution.utilitarian_percentage
              = calculate_framework_percentages(df).utilitarian
        /\ ~HoldsTestResult(report.framework_reaction_time_correlation)

\* C12: the stages leave the combined table as load_all_results returned
\* it, so combined_results.csv holds the loaded rows and columns.
C12_StagesLeaveTableUnchanged ==
    pc = "done" =>
        /\ out["combined_results.csv"].columns = df.columns
        /\ out["combined_results.csv"].rows = df.rows

\* C13: the combined table is the same for every order in which the
\* directory listing gives the sources.
C13_CombinedTableIgnoresListingOrder ==
    \A l1, l2 \in listdir(dir) :
        load_all_results(dir, l1).rows = load_all_results(dir, l2).rows

\* the table frame with its rows in the order p
Permuted(frame, p) ==
    DataFrame(frame.columns, [i \in DOMAIN p |-> frame.rows[p[i]]])
\* what generate_report can compute from frame: the statistics and the
\* report (the order of equal scores is the sort's, a function of the
\* dilemma statistics it is given)
Aggregates(frame) ==
    {[raised |-> g.raised, locals |-> g.locals, report |-> g.report] :
        g \in generate_report(frame)}

\* C14: a table and every permutation of its rows give the same framework
\* percentages, dilemma statistics, participant statistics and labels,
\* label counts and top-3 rankings.
C14_AggregationIgnoresRowOrder ==
    pc # "idle" =>
        \A p \in Perms(DOMAIN df.rows) : Aggregates(Permuted(df, p)) = Aggregates(df)
\* a finished run over three different records of two participants and two
\* dilemmas
C14_Witness ==
    /\ pc = "done"
    /\ Len(df.rows) = 3
    /\ \A i, j \in DOMAIN df.rows : i # j => df.rows[i] # df.rows[j]
    /\ Cardinality(locals.dilemma_stats) = 2
    /\ Cardinality(locals.participant_stats) = 2

\* the rows of I that hold a framework value
CountedTotal(frame, I) ==
    Cardinality({i \in I : ~isna(frame.rows[i]["Ethical Framework"])})

\* C15: on a table or a dilemma group in which no row holds a framework
\* value, the percentage step ends in a named failure, and
\* calculate_framework_percentages returns neither NaN nor 0 for it.
C15_PercentageOfEmptyGroupFails ==
    (df.rows # <<>> /\ CountedTotal(df, DOMAIN df.rows) = 0) =>
        /\ analyze_dilemma_responses(df).raised # ""
        /\ ~calculate_framework_percentages(df).utilitarian.nan
        /\ ~calculate_framework_percentages(df).deontological.nan
        /\ calculate_framework_percentages(df).utilitarian.num # 0

\* the row holds a Dilemma ID but no participant, framework or reaction time
MalformedRow(r) ==
    /\ ~isna(r["Dilemma ID"])
    /\ \/ isna(r["Participant ID"])
       \/ isna(r["Ethical Framework"])
       \/ isna(r["Reaction Time (s)"])

\* C16: a source with a malformed row loads as no table, and the combined
\* table holds none of its rows.
C16_MalformedRowMakesSourceUnreadable ==
    /\ \A n \in DOMAIN dir :
          (Parses(dir[n]) /\ \E i \in DOMAIN read_csv(dir[n]).frame.rows :
                                MalformedRow(read_csv(dir[n]).frame.rows[i]))
             => load_results_from_csv(dir[n]).none
    /\ \A i \in DOMAIN df.rows : ~MalformedRow(df.rows[i])

====
